---------------------------- MODULE Spec2Model ----------------------------
(*************************************************************************)
(* BlenderFDS: the FDS parameter codec (src/types/fds_param.py, class    *)
(* FDSParam) and the staged import of a parsed FDS case into a Blender   *)
(* Scene (src/lang/scene/scene.py, BFScene.from_fds).                    *)
(*                                                                       *)
(* Texts are sequences of one-character strings.  Python's None is the   *)
(* string None below, so that a label is always a string.                *)
(*************************************************************************)
EXTENDS Integers, Sequences, FiniteSets, TLC

VARIABLES
    \* ---- BFScene.from_fds ----
    case0,            \* the case as parsed by FDSCase.from_fds (scene.py:180-181)
    fds_case,         \* the namelists still held by fds_case
    free_text,        \* the lines written to the "Imported text" Blender Text
    move_id_to_move,  \* the dict of scene.py:192
    objects,          \* the Objects linked to the Scene Collection
    imported,         \* namelists whose from_fds returned without BFNotImported
    batch,            \* the list a for loop is iterating over, what is left of it
    pass,             \* which of the four extraction passes is running
    pc,               \* position in BFScene.from_fds
    log,              \* the namelists handed to a pass, in the order handled
    \* ---- FDSParam ----
    p,                \* the FDSParam under study (self)
    q,                \* a second FDSParam: a copy of p, or the one that re-reads p's text
    out,              \* what the last call returned or raised
    pre,              \* p as it was when the last call was entered
    ppc               \* position in the life of p

scene_vars == <<case0, fds_case, free_text, move_id_to_move, objects, imported,
                batch, pass, pc, log>>
param_vars == <<p, q, out, pre, ppc>>
vars == <<case0, fds_case, free_text, move_id_to_move, objects, imported,
          batch, pass, pc, log, p, q, out, pre, ppc>>

None == "None"

(*************************************************************************)
(*                      PART 1: BFScene.from_fds                         *)
(*************************************************************************)

\* Bounds of the scene model.
MaxNamelists == 3

\* MOVE IDs appearing in the case, and NoId for a namelist without ID
\* parameter or an Object without bf_move_id.
MoveIds == {"m1", "m2"}
NoId == "noid"

\* The namelists a parsed case is made of: label and, for a MOVE, its ID.
NamelistKinds ==
    {[fds_label |-> l, id |-> NoId] : l \in {"SURF", "surf", "OBST", "VENT"}}
    \cup {[fds_label |-> "MOVE", id |-> i] : i \in MoveIds \cup {NoId}}

\* A case of n namelists; pos is the namelist's place in the document.
CasesOfLen(n) ==
    {[i \in 1..n |-> [pos |-> i, fds_label |-> f[i].fds_label, id |-> f[i].id]] :
        f \in [1..n -> NamelistKinds]}

Cases == UNION {CasesOfLen(n) : n \in 0..MaxNamelists}

\* Upper-case form of a label (extraction matches case-insensitively).
Upper(l) == IF l = "surf" THEN "SURF" ELSE l

\* FDSCase.get(fds_label, remove): the namelists whose label matches, in
\* original relative order; all of them when fds_label is None.  With
\* remove they leave the case.
Matches(nl, fds_label) == fds_label = None \/ Upper(nl.fds_label) = Upper(fds_label)

GetItems(c, fds_label) == SelectSeq(c, LAMBDA nl : Matches(nl, fds_label))

GetRest(c, fds_label, remove) ==
    IF remove THEN SelectSeq(c, LAMBDA nl : ~Matches(nl, fds_label)) ELSE c

\* The labels of the four passes of BFScene.from_fds, in program order
\* (scene.py:189, 193, 200, 203).
PassLabels == <<"SURF", "MOVE", "OBST", None>>

\* A get that leaves the namelists in the case.
ImportRemoveOff == FALSE

\* remove=True of _import_by_fds_label (scene.py:12) and of the MOVE loop
\* (scene.py:193).
ImportRemove == TRUE

\* The index of the MOVE pass, whose loop body is scene.py:194-197.
IsMovePass(k) == PassLabels[k] = "MOVE"

InitScene ==
    /\ case0 \in Cases
    /\ fds_case = case0
    /\ free_text = <<>>
    /\ move_id_to_move = [i \in MoveIds |-> 0]
    /\ objects = <<>>
    /\ imported = {}
    /\ batch = <<>>
    /\ pass = 1
    /\ pc = "extract"
    /\ log = <<>>

\* fds_case.get(label, remove=True) at the head of a pass's for loop.
Extract ==
    /\ pc = "extract"
    /\ batch' = GetItems(fds_case, PassLabels[pass])
    /\ fds_case' = GetRest(fds_case, PassLabels[pass], ImportRemove)
    /\ pc' = "loop"
    /\ UNCHANGED <<param_vars, case0, free_text, move_id_to_move, objects, imported, pass, log>>

Logged(nl) == Append(log, [pass |-> pass, pos |-> nl.pos, fds_label |-> nl.fds_label])

\* last resort of _import_fds_namelist (scene.py:53-54)
WriteFreeText(nl) == Append(free_text, nl)

\* _import_fds_namelist: no BFNamelist subclass has this label
ImportNoSubclass ==
    /\ pc = "loop" /\ ~IsMovePass(pass) /\ batch # <<>>
    /\ free_text' = WriteFreeText(Head(batch))
    /\ log' = Logged(Head(batch))
    /\ batch' = Tail(batch)
    /\ UNCHANGED <<param_vars, case0, fds_case, move_id_to_move, objects, imported, pass, pc>>

\* _import_fds_namelist, bpy_type Object: a new Object is linked to the
\* Scene Collection and its from_fds returns; it may have set bf_move_id.
ImportObject ==
    /\ pc = "loop" /\ ~IsMovePass(pass) /\ batch # <<>>
    /\ \E mid \in MoveIds \cup {NoId} :
          objects' = Append(objects, [src |-> Head(batch).pos, bf_move_id |-> mid])
    /\ imported' = imported \cup {Head(batch).pos}
    /\ log' = Logged(Head(batch))
    /\ batch' = Tail(batch)
    /\ UNCHANGED <<param_vars, case0, fds_case, free_text, move_id_to_move, pass, pc>>

\* _import_fds_namelist, bpy_type Scene or Material: from_fds returns.
ImportSceneOrMaterial ==
    /\ pc = "loop" /\ ~IsMovePass(pass) /\ batch # <<>>
    /\ imported' = imported \cup {Head(batch).pos}
    /\ log' = Logged(Head(batch))
    /\ batch' = Tail(batch)
    /\ UNCHANGED <<param_vars, case0, fds_case, free_text, move_id_to_move, objects, pass, pc>>

\* _import_fds_namelist, any bpy_type: from_fds raises BFNotImported, the
\* new Object or Material is removed again, the text goes to the free text.
ImportNotImported ==
    /\ pc = "loop" /\ ~IsMovePass(pass) /\ batch # <<>>
    /\ free_text' = WriteFreeText(Head(batch))
    /\ log' = Logged(Head(batch))
    /\ batch' = Tail(batch)
    /\ UNCHANGED <<param_vars, case0, fds_case, move_id_to_move, objects, imported, pass, pc>>

\* _import_fds_namelist, a bpy_type that is none of the three: AssertionError.
ImportUnhandled ==
    /\ pc = "loop" /\ ~IsMovePass(pass) /\ batch # <<>>
    /\ log' = Logged(Head(batch))
    /\ pc' = "raised"
    /\ UNCHANGED <<param_vars, case0, fds_case, free_text, move_id_to_move, objects, imported,
                   batch, pass>>

\* The body of the MOVE loop (scene.py:194-197).
CollectMove ==
    /\ pc = "loop" /\ IsMovePass(pass) /\ batch # <<>>
    /\ log' = Logged(Head(batch))
    /\ IF Head(batch).id = NoId
         THEN /\ pc' = "raised"
              /\ UNCHANGED <<move_id_to_move, batch>>
         ELSE /\ move_id_to_move' =
                    [move_id_to_move EXCEPT ![Head(batch).id] = Head(batch).pos]
              /\ batch' = Tail(batch)
              /\ pc' = pc
    /\ UNCHANGED <<param_vars, case0, fds_case, free_text, objects, imported, pass>>

\* A for loop is exhausted: on to the next pass, or to the loop over the Objects.
EndPass ==
    /\ pc = "loop" /\ batch = <<>>
    /\ IF pass < Len(PassLabels)
         THEN /\ pass' = pass + 1
              /\ pc' = "extract"
              /\ batch' = batch
         ELSE /\ pass' = pass
              /\ pc' = "transform"
              /\ batch' = objects
    /\ UNCHANGED <<param_vars, case0, fds_case, free_text, move_id_to_move, objects, imported, log>>

\* The loop over self.collection.objects (scene.py:206-216).
TransformSkip ==
    /\ pc = "transform" /\ batch # <<>>
    /\ Head(batch).bf_move_id = NoId
    /\ batch' = Tail(batch)
    /\ UNCHANGED <<param_vars, case0, fds_case, free_text, move_id_to_move, objects, imported,
                   pass, pc, log>>

TransformMissing ==
    /\ pc = "transform" /\ batch # <<>>
    /\ Head(batch).bf_move_id # NoId
    /\ move_id_to_move[Head(batch).bf_move_id] = 0
    /\ pc' = "raised"
    /\ UNCHANGED <<param_vars, case0, fds_case, free_text, move_id_to_move, objects, imported,
                   batch, pass, log>>

TransformMove ==
    /\ pc = "transform" /\ batch # <<>>
    /\ Head(batch).bf_move_id # NoId
    /\ move_id_to_move[Head(batch).bf_move_id] # 0
    /\ imported' = imported \cup {move_id_to_move[Head(batch).bf_move_id]}
    /\ batch' = Tail(batch)
    /\ UNCHANGED <<param_vars, case0, fds_case, free_text, move_id_to_move, objects, pass, pc, log>>

TransformNotImported ==
    /\ pc = "transform" /\ batch # <<>>
    /\ Head(batch).bf_move_id # NoId
    /\ move_id_to_move[Head(batch).bf_move_id] # 0
    /\ pc' = "raised"
    /\ UNCHANGED <<param_vars, case0, fds_case, free_text, move_id_to_move, objects, imported,
                   batch, pass, log>>

\* scene.py:218-223
Finish ==
    /\ pc = "transform" /\ batch = <<>>
    /\ pc' = "done"
    /\ UNCHANGED <<param_vars, case0, fds_case, free_text, move_id_to_move, objects, imported,
                   batch, pass, log>>

NextScene ==
    \/ Extract
    \/ ImportNoSubclass
    \/ ImportObject
    \/ ImportSceneOrMaterial
    \/ ImportNotImported
    \/ ImportUnhandled
    \/ CollectMove
    \/ EndPass
    \/ TransformSkip
    \/ TransformMissing
    \/ TransformMove
    \/ TransformNotImported
    \/ Finish

(*************************************************************************)
(*                          PART 2: FDSParam                             *)
(*************************************************************************)

\* ---- characters and numbers -------------------------------------------

DigitChars == <<"0", "1", "2", "3", "4", "5", "6", "7", "8", "9">>

IsDigit(c) == c \in {"0", "1", "2", "3", "4", "5", "6", "7", "8", "9"}

DigitVal(c) == CHOOSE d \in 0..9 : DigitChars[d + 1] = c

\* Python's str.strip() and \s: the whitespace of the texts considered.
IsSpace(c) == c \in {" ", "\n"}

RECURSIVE Pow10(_)
Pow10(n) == IF n <= 0 THEN 1 ELSE 10 * Pow10(n - 1)

\* str(n) of a non-negative int
RECURSIVE IntToStr(_)
IntToStr(n) ==
    IF n < 10 THEN <<DigitChars[n + 1]>>
    ELSE IntToStr(n \div 10) \o <<DigitChars[(n % 10) + 1]>>

\* int(s) of a run of digits, 0 for the empty run
RECURSIVE StrToInt(_)
StrToInt(s) ==
    IF s = <<>> THEN 0
    ELSE 10 * StrToInt(SubSeq(s, 1, Len(s) - 1)) + DigitVal(s[Len(s)])

RECURSIVE Zeros(_)
Zeros(n) == IF n <= 0 THEN <<>> ELSE <<"0">> \o Zeros(n - 1)

\* n in exactly w digits, zero padded on the left (n < 10^w)
PadLeft(n, w) == Zeros(w - Len(IntToStr(n))) \o IntToStr(n)

\* n / d rounded to the nearest integer, a tie to the even one: the rounding
\* of round() and of the f and E presentation types on a value whose
\* decimal expansion is exact.
RoundHalfEven(n, d) ==
    LET quo == n \div d
        rem == n % d
    IN  IF 2 * rem > d THEN quo + 1
        ELSE IF 2 * rem < d THEN quo
        ELSE IF quo % 2 = 0 THEN quo ELSE quo + 1

\* ---- values -------------------------------------------------------------
\* A Python value of one of the four kinds: a bool (m in 0..1), an int m,
\* a float m * 10^e (m >= 0, without trailing zeros) or a str s.

BoolV(b) == [k |-> "bool", m |-> IF b THEN 1 ELSE 0, e |-> 0, s |-> <<>>]
IntV(n) == [k |-> "int", m |-> n, e |-> 0, s |-> <<>>]
StrV(t) == [k |-> "str", m |-> 0, e |-> 0, s |-> t]

RECURSIVE NormM(_)
NormM(m) == IF m = 0 \/ m % 10 # 0 THEN m ELSE NormM(m \div 10)
RECURSIVE NormE(_, _)
NormE(m, e) == IF m = 0 THEN 0 ELSE IF m % 10 # 0 THEN e ELSE NormE(m \div 10, e + 1)

FloatV(m, e) == [k |-> "float", m |-> NormM(m), e |-> NormE(m, e), s |-> <<>>]

\* isinstance(v, float)
IsFloat(v) == v.k = "float"

\* The float is a multiple of 0.25: its decimal expansion is its exact
\* binary value, so that rounding it in decimal is what Python does.
IsQuarter(v) == v.e >= -2 /\ (v.m * Pow10(v.e + 2)) % 25 = 0

Homogeneous(vs) == \A i \in 1..Len(vs) : vs[i].k = vs[1].k

\* ",".join(seq)
RECURSIVE JoinComma(_)
JoinComma(ts) ==
    IF ts = <<>> THEN <<>>
    ELSE IF Len(ts) = 1 THEN ts[1]
    ELSE ts[1] \o <<",">> \o JoinComma(Tail(ts))

\* ---- FDSParam._get_formatted_values -------------------------------------

\* round(v, precision) of a float, as the integer v * 10^precision
FixedScaled(v, precision) ==
    IF v.e + precision >= 0 THEN v.m * Pow10(v.e + precision)
    ELSE RoundHalfEven(v.m, Pow10(-(v.e + precision)))

\* f"{x:.{precision}f}" of x = n / 10^precision
FormatFixedOf(n, precision) ==
    IF precision = 0 THEN IntToStr(n)
    ELSE IntToStr(n \div Pow10(precision)) \o <<".">>
         \o PadLeft(n % Pow10(precision), precision)

\* f"{round(v, precision):.{precision}f}"
FormatFixed(v, precision) == FormatFixedOf(FixedScaled(v, precision), precision)

\* The precision + 1 significant digits of v, rounded, as an integer: it is
\* 10^(precision + 1) when the rounding carried into one more digit.
ExpRound(v, precision) ==
    IF precision - (Len(IntToStr(v.m)) - 1) >= 0
    THEN v.m * Pow10(precision - (Len(IntToStr(v.m)) - 1))
    ELSE RoundHalfEven(v.m, Pow10((Len(IntToStr(v.m)) - 1) - precision))

\* The mantissa of v in E notation, as an integer of precision + 1 digits
ExpMantissa(v, precision) ==
    IF ExpRound(v, precision) = Pow10(precision + 1) THEN Pow10(precision)
    ELSE ExpRound(v, precision)

\* The decimal exponent of v in E notation
ExpExponent(v, precision) ==
    IF v.m = 0 THEN 0
    ELSE (Len(IntToStr(v.m)) - 1) + v.e
         + (IF ExpRound(v, precision) = Pow10(precision + 1) THEN 1 ELSE 0)

Abs(x) == IF x < 0 THEN -x ELSE x

\* d.ddd E sign xx: the mantissa digits ds, the exponent x in two digits at least
FormatExpOf(ds, x, precision) ==
    <<ds[1]>>
    \o (IF precision = 0 THEN <<>> ELSE <<".">> \o SubSeq(ds, 2, precision + 1))
    \o <<"E", IF x < 0 THEN "-" ELSE "+">>
    \o (IF Abs(x) < 10 THEN <<"0">> ELSE <<>>) \o IntToStr(Abs(x))

\* f"{v:.{precision}E}"
FormatExp(v, precision) ==
    FormatExpOf(PadLeft(ExpMantissa(v, precision), precision + 1),
                ExpExponent(v, precision), precision)

\* "'" in v and f'"{v}"' or f"'{v}'"
FormatStr(v) ==
    IF \E i \in 1..Len(v.s) : v.s[i] = "'"
    THEN <<"\"">> \o v.s \o <<"\"">>
    ELSE <<"'">> \o v.s \o <<"'">>

\* One value formatted as the kind of values[0] asks (the values are of
\* one kind).
FormatValue(v, precision, exponential) ==
    CASE v.k = "float" ->
           IF exponential THEN FormatExp(v, precision) ELSE FormatFixed(v, precision)
      [] v.k = "str" -> FormatStr(v)
      [] v.k = "bool" -> IF v.m = 1 THEN <<"T">> ELSE <<"F">>
      [] v.k = "int" -> IntToStr(v.m)

\* The tuple of formatted values, the empty tuple for no values.
GetFormattedValues(self) ==
    [i \in 1..Len(self.values) |->
        FormatValue(self.values[i], self.precision, self.exponential)]

\* ---- FDSParam.__init__, set_value, copy, to_fds --------------------------

\* default of the precision argument of __init__
DefaultPrecision == 3

\* set_value(value): the list stored for an argument that is None, a scalar
\* (int, float, str; a bool is an int) or an iterable.  An argument is
\* [t |-> "None" | "scalar" | "list" | "object", vs |-> its value(s)].
SetValueRaises(value) == value.t \notin {"None", "scalar", "list"}

SetValue(value) ==
    CASE value.t = "None" -> <<>>
      [] value.t = "scalar" -> <<value.vs[1]>>
      [] OTHER -> value.vs

\* msgs and list(msgs) or list(), then append(msg)
InitMsgs(msg, msgs) == Append(msgs, msg)

\* FDSParam(fds_label, value, precision, exponential, msg, msgs)
NewParam(fds_label, value, precision, exponential, msg, msgs) ==
    [fds_label |-> fds_label,
     values |-> SetValue(value),
     precision |-> precision,
     exponential |-> exponential,
     msgs |-> InitMsgs(msg, msgs)]

\* FDSParam.copy
Copy(self) ==
    NewParam(self.fds_label, [t |-> "list", vs |-> self.values],
             self.precision, self.exponential, None, self.msgs)

\* The characters of a label.
LabelChars(l) ==
    CASE l = "ID" -> <<"I", "D">>
      [] l = "XB" -> <<"X", "B">>
      [] OTHER -> <<>>

\* if self.fds_label: a label that is None or empty is false
HasLabel(self) == self.fds_label # None /\ self.fds_label # ""

\* A to_fds that returns the joined values of an FDSParam without label.
ToFdsAnonymous(self) ==
    LET v == JoinComma(GetFormattedValues(self))
    IN  IF HasLabel(self)
        THEN IF v # <<>>
             THEN [none |-> FALSE, text |-> LabelChars(self.fds_label) \o <<"=">> \o v]
             ELSE [none |-> FALSE, text |-> LabelChars(self.fds_label)]
        ELSE IF v # <<>> THEN [none |-> FALSE, text |-> v]
             ELSE [none |-> TRUE, text |-> <<>>]

\* FDSParam.to_fds: [none |-> the call returned None, text |-> the string
\* returned otherwise].  Without label the if has no else: None is returned.
ToFds(self) ==
    LET v == JoinComma(GetFormattedValues(self))
    IN  IF HasLabel(self)
        THEN IF v # <<>>
             THEN [none |-> FALSE, text |-> LabelChars(self.fds_label) \o <<"=">> \o v]
             ELSE [none |-> FALSE, text |-> LabelChars(self.fds_label)]
        ELSE [none |-> TRUE, text |-> <<>>]

\* ---- FDSParam.from_fds ---------------------------------------------------

\* f90.strip()
RECURSIVE StripLeft(_)
StripLeft(s) == IF s # <<>> /\ IsSpace(Head(s)) THEN StripLeft(Tail(s)) ELSE s
RECURSIVE StripRight(_)
StripRight(s) ==
    IF s # <<>> /\ IsSpace(s[Len(s)]) THEN StripRight(SubSeq(s, 1, Len(s) - 1)) ELSE s

\* " ".join(f90.strip().splitlines()): no line break is left at either
\* end, so each one inside becomes a space
F90c(f90) ==
    LET t == StripRight(StripLeft(f90))
    IN  [i \in 1..Len(t) |-> IF t[i] = "\n" THEN " " ELSE t[i]]

\* The first j >= i with s[j] = c, 0 when there is none.
RECURSIVE IndexFrom(_, _, _)
IndexFrom(s, c, i) ==
    IF i > Len(s) THEN 0 ELSE IF s[i] = c THEN i ELSE IndexFrom(s, c, i + 1)

\* [^,\s\t]
IsTokenChar(c) == c # "," /\ ~IsSpace(c)

\* The last index of the run of token characters that starts at i.
RECURSIVE TokenEnd(_, _)
TokenEnd(s, i) ==
    IF i + 1 <= Len(s) /\ IsTokenChar(s[i + 1]) THEN TokenEnd(s, i + 1) ELSE i

\* The index after the run of digits that starts at i (i when there is none).
RECURSIVE DigitsEnd(_, _)
DigitsEnd(s, i) ==
    IF i <= Len(s) /\ IsDigit(s[i]) THEN DigitsEnd(s, i + 1) ELSE i

\* re.findall(_RE_SCAN_VALUES, s) from index i on: at each place the first
\* alternative that matches, '.*?' then ".*?" then [^,\s\t]+
RECURSIVE ScanValues(_, _)
ScanValues(s, i) ==
    IF i > Len(s) THEN <<>>
    ELSE LET close == IF s[i] \in {"'", "\""} THEN IndexFrom(s, s[i], i + 1) ELSE 0
         IN  IF close # 0
             THEN <<SubSeq(s, i, close)>> \o ScanValues(s, close + 1)
             ELSE IF IsTokenChar(s[i])
                  THEN <<SubSeq(s, i, TokenEnd(s, i))>> \o ScanValues(s, TokenEnd(s, i) + 1)
                  ELSE ScanValues(s, i + 1)

\* The token is one Python string literal: it opens and closes with the
\* same quote, which is not inside.
IsQuoted(v) ==
    /\ Len(v) >= 2
    /\ v[1] \in {"'", "\""}
    /\ v[Len(v)] = v[1]
    /\ \A i \in 2..(Len(v) - 1) : v[i] # v[1]

\* The parts of a token read as a Python number: digits (up to a), an
\* optional point and digits (from b0 up to b), an optional exponent (E, an
\* optional sign, digits from x0 up to x).
NumberPartsAt(v, a, b0, b, x0, x) ==
    [int |-> SubSeq(v, 1, a - 1),
     hasDot |-> b0 > a,
     frac |-> SubSeq(v, b0, b - 1),
     hasExp |-> x0 > b,
     neg |-> x0 = b + 2 /\ v[b + 1] = "-",
     exp |-> SubSeq(v, x0, x - 1),
     end |-> x]

ExponentStart(v, b) ==
    IF b <= Len(v) /\ v[b] \in {"E", "e"}
    THEN IF b + 1 <= Len(v) /\ v[b + 1] \in {"+", "-"} THEN b + 2 ELSE b + 1
    ELSE b

NumberPartsExponent(v, a, b0, b, x0) ==
    NumberPartsAt(v, a, b0, b, x0, IF x0 > b THEN DigitsEnd(v, x0) ELSE b)

NumberPartsFraction(v, a, b0, b) == NumberPartsExponent(v, a, b0, b, ExponentStart(v, b))

NumberPartsPoint(v, a, b0) == NumberPartsFraction(v, a, b0, DigitsEnd(v, b0))

NumberPartsInt(v, a) ==
    NumberPartsPoint(v, a, IF a <= Len(v) /\ v[a] = "." THEN a + 1 ELSE a)

NumberParts(v) == NumberPartsInt(v, DigitsEnd(v, 1))

\* The token is a Python decimal integer or float literal.  An integer
\* literal has no leading zero unless it is all zeros.
IsNumber(v) ==
    LET n == NumberParts(v)
    IN  /\ n.end = Len(v) + 1
        /\ n.int # <<>> \/ (n.hasDot /\ n.frac # <<>>)
        /\ n.hasExp => n.exp # <<>>
        /\ (~n.hasDot /\ ~n.hasExp) =>
              (n.int[1] # "0" \/ \A i \in 1..Len(n.int) : n.int[i] = "0")

NumberValue(v) ==
    LET n == NumberParts(v)
        x == IF n.neg THEN -StrToInt(n.exp) ELSE StrToInt(n.exp)
    IN  IF ~n.hasDot /\ ~n.hasExp THEN IntV(StrToInt(n.int))
        ELSE FloatV(StrToInt(n.int \o n.frac), x - Len(n.frac))

\* eval(v) of a token: [ok |-> it returned, v |-> the value].  A token that
\* is neither a number nor one string literal raises (SyntaxError,
\* NameError).
PyEval(v) ==
    IF IsNumber(v) THEN [ok |-> TRUE, v |-> NumberValue(v)]
    ELSE IF IsQuoted(v) THEN [ok |-> TRUE, v |-> StrV(SubSeq(v, 2, Len(v) - 1))]
    ELSE [ok |-> FALSE, v |-> StrV(v)]

TRUE_ == <<".", "T", "R", "U", "E", ".">>
FALSE_ == <<".", "F", "A", "L", "S", "E", ".">>

\* A loop body that keeps a token eval() rejects as a string.
EvalTokenUnquoted(v) ==
    IF v \in {TRUE_, <<"T">>} THEN [ok |-> TRUE, v |-> BoolV(TRUE)]
    ELSE IF v \in {FALSE_, <<"F">>} THEN [ok |-> TRUE, v |-> BoolV(FALSE)]
    ELSE IF PyEval(v).ok THEN PyEval(v)
    ELSE [ok |-> TRUE, v |-> StrV(v)]

\* The body of the for loop of from_fds on one token: ok is false when
\* eval(v) raised, which from_fds turns into BFException.
EvalToken(v) ==
    IF v \in {TRUE_, <<"T">>} THEN [ok |-> TRUE, v |-> BoolV(TRUE)]
    ELSE IF v \in {FALSE_, <<"F">>} THEN [ok |-> TRUE, v |-> BoolV(FALSE)]
    ELSE PyEval(v)

\* re.findall(_RE_DECIMAL_POS, s) from index i on, the lengths of the
\* groups: a point and the digits after it, at least one
RECURSIVE DecimalLens(_, _)
DecimalLens(s, i) ==
    IF i > Len(s) THEN {}
    ELSE IF s[i] = "." /\ DigitsEnd(s, i + 1) > i + 1
         THEN {DigitsEnd(s, i + 1) - (i + 1)} \cup DecimalLens(s, DigitsEnd(s, i + 1))
         ELSE DecimalLens(s, i + 1)

\* re.findall(_RE_INTEGER, s) from index i on, the lengths of the groups:
\* digits (the group), an optional point, digits, then e or E
RECURSIVE IntegerLens(_, _)
IntegerLens(s, i) ==
    IF i > Len(s) THEN {}
    ELSE LET a == DigitsEnd(s, i)
             b == DigitsEnd(s, IF a <= Len(s) /\ s[a] = "." THEN a + 1 ELSE a)
         IN  IF b <= Len(s) /\ s[b] \in {"E", "e"}
             THEN {a - i} \cup IntegerLens(s, b + 1)
             ELSE IntegerLens(s, i + 1)

Max(S) == CHOOSE x \in S : \A y \in S : y <= x

\* self.precision after the post treatment of floats, from the lengths
\* the two findall calls returned
PrecisionOf(dec, int) ==
    (IF dec # {} THEN Max(dec) ELSE 1) + (IF int # {} THEN Max(int) - 1 ELSE 0)

FloatPrecision(f90c) == PrecisionOf(DecimalLens(f90c, 1), IntegerLens(f90c, 1))

\* self.exponential after the post treatment of floats: set when the second
\* findall matched, left as it was otherwise
FloatExponential(self, f90c) ==
    IF IntegerLens(f90c, 1) # {} THEN TRUE ELSE self.exponential

\* The index of the first token whose eval raised, 0 when none did.
FirstBad(ev) ==
    IF \A i \in 1..Len(ev) : ev[i].ok THEN 0
    ELSE CHOOSE i \in 1..Len(ev) : ~ev[i].ok /\ \A j \in 1..(i - 1) : ev[j].ok

\* A from_fds that records each value as soon as it is evaluated.
FromFdsTokensEager(self, f90c, toks, ev, bad) ==
    IF bad # 0
    THEN [exc |-> "BFException", tok |-> toks[bad],
          self |-> [self EXCEPT !.values = [i \in 1..(bad - 1) |-> ev[i].v]]]
    ELSE IF toks = <<>>
    THEN [exc |-> "IndexError", tok |-> <<>>, self |-> self]
    ELSE [exc |-> "", tok |-> <<>>,
          self |-> [self EXCEPT
              !.values = [i \in 1..Len(toks) |-> ev[i].v],
              !.precision = IF IsFloat(ev[1].v) THEN FloatPrecision(f90c) ELSE @,
              !.exponential = IF IsFloat(ev[1].v)
                              THEN FloatExponential(self, f90c) ELSE @]]

\* from_fds once the text is scanned into the tokens toks and each token is
\* evaluated (ev): [exc |-> "" when from_fds returned, else the exception
\* raised, tok |-> the token of the error message, self |-> the FDSParam
\* after the call].  The loop works on the local list: self is assigned
\* only after it, in the post treatment and in set_value.
FromFdsTokens(self, f90c, toks, ev, bad) ==
    IF bad # 0
    THEN [exc |-> "BFException", tok |-> toks[bad], self |-> self]
    ELSE IF toks = <<>>
    THEN [exc |-> "IndexError", tok |-> <<>>, self |-> self]
    ELSE [exc |-> "", tok |-> <<>>,
          self |-> [self EXCEPT
              !.values = [i \in 1..Len(toks) |-> ev[i].v],
              !.precision = IF IsFloat(ev[1].v) THEN FloatPrecision(f90c) ELSE @,
              !.exponential = IF IsFloat(ev[1].v)
                              THEN FloatExponential(self, f90c) ELSE @]]

\* The for loop of from_fds over the scanned tokens.
FromFdsEval(self, f90c, toks, ev) == FromFdsTokens(self, f90c, toks, ev, FirstBad(ev))

FromFdsScan(self, f90c, toks) ==
    FromFdsEval(self, f90c, toks, [i \in 1..Len(toks) |-> EvalToken(toks[i])])

\* self.from_fds(f90)
FromFdsJoined(self, f90c) == FromFdsScan(self, f90c, ScanValues(f90c, 1))

FromFds(self, f90) == FromFdsJoined(self, F90c(f90))

\* ---- the texts handed to from_fds ---------------------------------------

\* Bounds of the parameter model.
MaxTokens == 2

\* The pieces a text is made of: an int, an int with a leading zero, floats
\* (fixed, exponential, without decimals), the four boolean literals, quoted
\* strings (a separator inside, a single quote inside), an unquoted word, an
\* unterminated quote, a blank.
Lexemes ==
    {<<"1">>,
     <<"0", "1">>,
     <<"2", ".", "5", "0">>,
     <<"1", "2", ".", "5", "E", "+", "0", "1">>,
     <<"5", ".">>,
     <<"T">>,
     <<".", "T", "R", "U", "E", ".">>,
     <<"F">>,
     <<".", "F", "A", "L", "S", "E", ".">>,
     <<"'", "a", ",", " ", "b", "'">>,
     <<"\"", "c", "'", "d", "\"">>,
     <<"A", "B">>,
     <<"'", "a">>,
     <<" ">>}

\* What stands between two pieces.
Separators == {<<",">>, <<",", " ">>, <<"\n">>}

RECURSIVE JoinWith(_, _)
JoinWith(ts, sep) ==
    IF ts = <<>> THEN <<>>
    ELSE IF Len(ts) = 1 THEN ts[1]
    ELSE ts[1] \o sep \o JoinWith(Tail(ts), sep)

Texts ==
    {<<>>} \cup Lexemes
    \cup {JoinWith(ts, sep) :
            ts \in UNION {[1..n -> Lexemes] : n \in 2..MaxTokens}, sep \in Separators}

\* ---- the life of one FDSParam -------------------------------------------

MaxPrecision == 2

\* What a call left behind: the call (op), the exception it raised (exc,
\* "" when it returned) with the token its message names (tok), the text
\* it was given (arg), and what to_fds returned (none, text).
NoCall ==
    [op |-> "init", exc |-> "", tok |-> <<>>, arg |-> <<>>, none |-> FALSE, text |-> <<>>]

NoneArg == [t |-> "None", vs |-> <<>>]
Scalar(v) == [t |-> "scalar", vs |-> <<v>>]
List(vs) == [t |-> "list", vs |-> vs]

\* The Scene is not being imported while a parameter is studied, and no
\* parameter is studied while a Scene is imported.
IdleScene ==
    /\ case0 = <<>>
    /\ fds_case = <<>>
    /\ free_text = <<>>
    /\ move_id_to_move = [i \in MoveIds |-> 0]
    /\ objects = <<>>
    /\ imported = {}
    /\ batch = <<>>
    /\ pass = 1
    /\ pc = "idle"
    /\ log = <<>>

IdleParam ==
    /\ p = NewParam(None, NoneArg, DefaultPrecision, FALSE, None, <<>>)
    /\ q = p
    /\ out = NoCall
    /\ pre = p
    /\ ppc = "idle"

\* -- reading a text: set_value and from_fds on a constructed FDSParam --

\* The values an FDSParam holds before it reads a text.
ParseInitValues == {NoneArg, Scalar(IntV(7))}

\* The arguments of set_value: a list of floats, a list of mixed kinds,
\* something that is neither a scalar nor an iterable.
SetValueArgs ==
    {List(<<FloatV(25, -1), FloatV(5, 0)>>),
     List(<<IntV(1), StrV(<<"a">>)>>),
     [t |-> "object", vs |-> <<>>]}

InitParse ==
    /\ IdleScene
    /\ p \in {NewParam("ID", value, precision, exponential, None, <<>>) :
                value \in ParseInitValues,
                precision \in {0, DefaultPrecision},
                exponential \in BOOLEAN}
    /\ q = p
    /\ out = NoCall
    /\ pre = p
    /\ ppc = "new"

\* self.set_value(value=value)
CallSetValue ==
    /\ ppc \in {"new", "parsed", "raised"}
    /\ \E value \in SetValueArgs :
          IF SetValueRaises(value)
          THEN /\ p' = p
               /\ out' = [NoCall EXCEPT !.op = "set_value", !.exc = "Exception"]
          ELSE /\ p' = [p EXCEPT !.values = SetValue(value)]
               /\ out' = [NoCall EXCEPT !.op = "set_value"]
    /\ pre' = p
    /\ ppc' = "set"
    /\ UNCHANGED <<q, scene_vars>>

\* self.from_fds(f90).  Each FDSParam reads one text: what the call does
\* depends on the state before it only through the fields Init ranges over.
CallFromFds ==
    /\ ppc = "new"
    /\ \E f90 \in Texts :
          LET r == FromFds(p, f90)
          IN  /\ p' = r.self
              /\ out' = [NoCall EXCEPT !.op = "from_fds", !.exc = r.exc,
                                       !.tok = r.tok, !.arg = f90]
              /\ ppc' = IF r.exc = "" THEN "parsed" ELSE "raised"
    /\ pre' = p
    /\ UNCHANGED <<q, scene_vars>>

NextParse == CallSetValue \/ CallFromFds

SpecParse == InitParse /\ [][NextParse]_vars

\* -- writing a text: to_fds, copy, and reading back what was written --

\* Strings: plain, with a single quote, with a separator, with both quotes.
FormatStrings ==
    {<<StrV(<<"a">>)>>,
     <<StrV(<<"c", "'", "d">>), StrV(<<"a", ",", " ", "b">>)>>,
     <<StrV(<<"a", "'", "b", "\"", "c">>)>>}

\* Floats, all multiples of 0.25: 0.25 and 2.5, 9.75, 0.0 and 12.5
FormatFloats ==
    {<<FloatV(25, -2), FloatV(25, -1)>>, <<FloatV(975, -2)>>,
     <<FloatV(0, 0), FloatV(125, -1)>>}

FormatValues ==
    {NoneArg, Scalar(IntV(7)), List(<<IntV(1), IntV(20)>>),
     List(<<BoolV(TRUE), BoolV(FALSE)>>)}
    \cup {List(vs) : vs \in FormatStrings \cup FormatFloats}

InitFormat ==
    /\ IdleScene
    /\ p \in {NewParam(fds_label, value, precision, exponential, msg, msgs) :
                fds_label \in {None, "", "ID"},
                value \in FormatValues,
                precision \in 0..MaxPrecision,
                exponential \in BOOLEAN,
                msg \in {None, "msg"},
                msgs \in {<<>>, <<"note">>}}
    /\ q = p
    /\ out = NoCall
    /\ pre = p
    /\ ppc = "new"

\* self.to_fds()
CallToFds ==
    /\ ppc = "new"
    /\ out' = [NoCall EXCEPT !.op = "to_fds", !.none = ToFds(p).none,
                             !.text = ToFds(p).text]
    /\ pre' = p
    /\ ppc' = "written"
    /\ UNCHANGED <<p, q, scene_vars>>

\* q = self.copy()
CallCopy ==
    /\ ppc = "new"
    /\ q' = Copy(p)
    /\ out' = [NoCall EXCEPT !.op = "copy"]
    /\ pre' = p
    /\ ppc' = "copied"
    /\ UNCHANGED <<p, scene_vars>>

\* q = q.copy(): a copy of a copy
CallCopyOfCopy ==
    /\ ppc = "copied"
    /\ q' = Copy(q)
    /\ out' = [NoCall EXCEPT !.op = "copy"]
    /\ pre' = p
    /\ ppc' = "copied2"
    /\ UNCHANGED <<p, scene_vars>>

\* A valid Parameter: values of one kind, at least one.
Valid(self) == self.values # <<>> /\ Homogeneous(self.values)

\* The text of self's values is read back by an FDSParam of the same
\* label, precision and exponential:
\* q = FDSParam(fds_label, precision, exponential)
\* q.from_fds(",".join(self._get_formatted_values()))
CallRoundTrip ==
    /\ ppc = "new"
    /\ Valid(p)
    /\ LET f90 == JoinComma(GetFormattedValues(p))
           r   == FromFds(NewParam(p.fds_label, NoneArg, p.precision, p.exponential,
                                   None, <<>>), f90)
       IN  /\ q' = r.self
           /\ out' = [NoCall EXCEPT !.op = "round_trip", !.exc = r.exc,
                                    !.tok = r.tok, !.arg = f90]
    /\ pre' = p
    /\ ppc' = "read_back"
    /\ UNCHANGED <<p, scene_vars>>

NextFormat == CallToFds \/ CallCopy \/ CallCopyOfCopy \/ CallRoundTrip

SpecFormat == InitFormat /\ [][NextFormat]_vars

\* -- importing a case --

InitImport == InitScene /\ IdleParam

SpecScene == InitImport /\ [][NextScene]_vars

\* =========================================================================
\* PART 3: the properties
\* =========================================================================

\* ---- importing a case (SpecScene) ----------------------------------------

\* C1: no data loss on import.  Once Scene.from_fds has completed, every
\* namelist of the case has been imported (into a Scene, an Object or a
\* Material, or applied as the MOVE of an Object) or stands in the free
\* text, MOVE namelists included.
C1_NoDataLoss ==
    pc = "done" =>
        \A n \in 1..Len(case0) :
            \/ n \in imported
            \/ \E j \in 1..Len(free_text) : free_text[j].pos = n

\* The pass a label belongs to by its upper case: SURF, MOVE, OBST or, for
\* any other label, the catch-all pass.
KindOfLabel(l) == IF Upper(l) \in {"SURF", "MOVE", "OBST"} THEN Upper(l) ELSE "other"

\* C2: staged destructive extraction.  The namelists are processed pass by
\* pass in the order SURF, MOVE, OBST, catch-all; no namelist is processed
\* twice and, once the passes are over, each has been processed; the
\* catch-all pass never sees a SURF, a MOVE or an OBST; every SURF comes
\* before any OBST and every OBST before any other remaining namelist; and
\* within one pass the namelists keep their order in the case.
C2_StagedExtraction ==
    /\ \A i, j \in 1..Len(log) :
          i < j =>
            /\ log[i].pos # log[j].pos
            /\ log[i].pass <= log[j].pass
            /\ log[i].pass = log[j].pass => log[i].pos < log[j].pos
            /\ ~(KindOfLabel(log[i].fds_label) = "OBST"
                 /\ KindOfLabel(log[j].fds_label) = "SURF")
            /\ ~(KindOfLabel(log[i].fds_label) = "other"
                 /\ KindOfLabel(log[j].fds_label) \in {"SURF", "OBST"})
    /\ \A i \in 1..Len(log) :
          /\ (log[i].pass = 1) = (KindOfLabel(log[i].fds_label) = "SURF")
          /\ (log[i].pass = 2) = (KindOfLabel(log[i].fds_label) = "MOVE")
          /\ (log[i].pass = 3) = (KindOfLabel(log[i].fds_label) = "OBST")
          /\ (log[i].pass = 4) = (KindOfLabel(log[i].fds_label) = "other")
    /\ pc \in {"transform", "done"} =>
          \A n \in 1..Len(case0) : \E i \in 1..Len(log) : log[i].pos = n

\* A case written as a VENT, an OBST, then a SURF has been imported: the
\* SURF was processed first, the OBST second, the VENT last.
C2_Witness ==
    /\ pc = "done"
    /\ Len(case0) = 3
    /\ case0[1].fds_label = "VENT" /\ case0[2].fds_label = "OBST"
    /\ Upper(case0[3].fds_label) = "SURF"
    /\ Len(log) = 3
    /\ log[1].pos = 3 /\ log[2].pos = 2 /\ log[3].pos = 1

\* ---- reading a text (SpecParse) -------------------------------------------

\* The tokens from_fds scanned in the text of the last call.
TokensOfCall == ScanValues(F90c(out.arg), 1)

IsTrueLiteral(t) == t = <<"T">> \/ t = <<".", "T", "R", "U", "E", ".">>
IsFalseLiteral(t) == t = <<"F">> \/ t = <<".", "F", "A", "L", "S", "E", ".">>

\* The token shows a decimal point or an exponent marker.
HasPointOrMarker(t) == \E i \in 1..Len(t) : t[i] \in {".", "E", "e"}

\* The token is an unquoted word of letters.
IsWord(t) == t # <<>> /\ \A i \in 1..Len(t) : t[i] \in {"A", "B"}

\* The token evaluates: a boolean literal, a Python number, one quoted string.
Evaluates(t) == IsTrueLiteral(t) \/ IsFalseLiteral(t) \/ IsNumber(t) \/ IsQuoted(t)

\* v is what the token t decodes to, by the precedence boolean, number,
\* quoted string.
DecodesTo(t, v) ==
    IF IsTrueLiteral(t) THEN v = BoolV(TRUE)
    ELSE IF IsFalseLiteral(t) THEN v = BoolV(FALSE)
    ELSE IF IsNumber(t)
         THEN /\ v.k = (IF HasPointOrMarker(t) THEN "float" ELSE "int")
              /\ v = NumberValue(t)
    ELSE IsQuoted(t) /\ v = StrV(SubSeq(t, 2, Len(t) - 1))

MarkedTokens == {i \in 1..Len(TokensOfCall) : NumberParts(TokensOfCall[i]).hasExp}

\* C6: precision and exponential inference.  After from_fds on a text whose
\* tokens are floats, whatever precision and exponential were before,
\* exponential is true iff some token shows an exponent marker, and
\* precision is the largest number of digits after a decimal point, plus
\* (the largest number of integer digits of a mantissa - 1) when exponential.
C6_Inference ==
    (/\ out.op = "from_fds"
     /\ out.exc = ""
     /\ \A i \in 1..Len(TokensOfCall) :
           IsNumber(TokensOfCall[i]) /\ HasPointOrMarker(TokensOfCall[i]))
    => /\ p.exponential = (MarkedTokens # {})
       /\ p.precision =
            Max({Len(NumberParts(TokensOfCall[i]).frac) : i \in 1..Len(TokensOfCall)})
            + (IF MarkedTokens = {} THEN 0
               ELSE Max({Len(NumberParts(TokensOfCall[i]).int) : i \in MarkedTokens}) - 1)

\* C7: homogeneity.  After construction and any set_value or from_fds that
\* returned, the values of the FDSParam are all of one kind.
C7_Homogeneous == out.exc = "" => Homogeneous(p.values)

\* C9: from_fds returns or raises BFException, whatever the text, and the
\* BFException names the offending token.
C9_OnlyBFException ==
    out.op = "from_fds" =>
        /\ out.exc \in {"", "BFException"}
        /\ out.exc = "BFException" =>
              \E i \in 1..Len(TokensOfCall) : out.tok = TokensOfCall[i]

\* C10: when from_fds raises, on whatever token, the FDSParam is what it
\* was before the call: label, values, precision, exponential and msgs.
C10_UnchangedOnError ==
    (out.op = "from_fds" /\ out.exc # "") => p = pre

\* from_fds raised on the second token of a text whose first token is a
\* float, on an FDSParam that held a value and another precision.
C10_Witness ==
    /\ out.op = "from_fds"
    /\ out.exc = "BFException"
    /\ Len(TokensOfCall) = 2
    /\ EvalToken(TokensOfCall[1]).ok /\ IsFloat(EvalToken(TokensOfCall[1]).v)
    /\ out.tok = TokensOfCall[2]
    /\ pre.values = <<IntV(7)>>
    /\ pre.precision = 0

\* ---- formatting and copying (SpecFormat) ----------------------------------

\* What a value is once formatted with precision and exponential: a float
\* is rounded to the digits the text shows, any other value is itself.
Rounded(v, precision, exponential) ==
    IF v.k # "float" THEN v
    ELSE IF exponential
         THEN IF ExpExponent(v, precision) - precision >= 0
              THEN FloatV(ExpMantissa(v, precision)
                            * Pow10(ExpExponent(v, precision) - precision), 0)
              ELSE FloatV(ExpMantissa(v, precision), ExpExponent(v, precision) - precision)
         ELSE FloatV(FixedScaled(v, precision), -precision)

\* Two values are equal as Python compares them: numbers by their value
\* (2 == 2.0), anything else by kind and content.
SameValue(a, b) ==
    IF a.k \in {"int", "float"} /\ b.k \in {"int", "float"}
    THEN FloatV(a.m, a.e) = FloatV(b.m, b.e)
    ELSE a = b

\* C3: round trip.  The text of a valid FDSParam's values, read back by
\* from_fds, gives its values (floats up to the rounding of precision), its
\* precision and its exponential.
C3_RoundTrip ==
    out.op = "round_trip" =>
        /\ out.exc = ""
        /\ Len(q.values) = Len(p.values)
        /\ \A i \in 1..Len(p.values) :
              SameValue(q.values[i], Rounded(p.values[i], p.precision, p.exponential))
        /\ q.precision = p.precision
        /\ q.exponential = p.exponential

\* C4 (amended): to_fds returns "LABEL=v1,v2,..." when the label is present
\* and there are values, the bare "LABEL" when the label is present and
\* there is no value, and None whenever the label is absent or empty,
\* whether or not there are values.
C4_ToFds ==
    out.op = "to_fds" =>
        IF p.fds_label \notin {None, ""}
        THEN /\ ~out.none
             /\ out.text = IF p.values # <<>>
                           THEN LabelChars(p.fds_label) \o <<"=">>
                                \o JoinComma(GetFormattedValues(p))
                           ELSE LabelChars(p.fds_label)
        ELSE out.none

\* to_fds returned None for an FDSParam without label that holds values.
C4_Witness ==
    /\ out.op = "to_fds"
    /\ p.fds_label = None
    /\ Len(p.values) = 2
    /\ out.none

\* C4 as stated: without label, to_fds returns the values joined with
\* commas when there are values, and None only when there is none.
C4_AnonymousValues ==
    out.op = "to_fds" =>
        IF p.fds_label \notin {None, ""}
        THEN /\ ~out.none
             /\ out.text = IF p.values # <<>>
                           THEN LabelChars(p.fds_label) \o <<"=">>
                                \o JoinComma(GetFormattedValues(p))
                           ELSE LabelChars(p.fds_label)
        ELSE IF p.values # <<>>
             THEN ~out.none /\ out.text = JoinComma(GetFormattedValues(p))
             ELSE out.none

\* C8: copy.  The copy, and the copy of the copy, has the label, the
\* precision, the exponential, the values and the msgs of the original.
C8_CopyEqual ==
    ppc \in {"copied", "copied2"} =>
        /\ q.fds_label = p.fds_label
        /\ q.precision = p.precision
        /\ q.exponential = p.exponential
        /\ q.values = p.values
        /\ q.msgs = p.msgs

=============================================================================
